---- MODULE Spec2Model ----
(***************************************************************************)
(* State machine of the gesture-driven scene: App (scene state, hand       *)
(* sample, music, photos), HandTracker (detector initialisation, camera    *)
(* stream, inference loop) and the per-frame progress controllers of       *)
(* Foliage, Ornaments, Polaroids and Ribbon.                               *)
(*                                                                         *)
(* React is modelled by what its handlers can observe: a useState value    *)
(* is the result of applying the queued updates in order; `rendered` is    *)
(* the snapshot of the state the closures of the latest committed render   *)
(* captured; onHandUpdateRef is the handleHandUpdate closure HandTracker's *)
(* effect stored last.  Render and RunEffects are steps of their own, so   *)
(* a handler can run between a setState and the re-render it causes.       *)
(***************************************************************************)
EXTENDS Integers, Sequences, FiniteSets, TLC

\* ---------------------------------------------------------------- bounds
MaxEnables == 1        \* re-enables of the camera after mount
MaxRaf == 3            \* animation-frame ids handed out
MaxVideoTime == 1      \* video timestamps after 0
WGrid == 2             \* wrist coordinates are k / WGrid, k in 0..WGrid
MaxMusicUploads == 1   \* object URLs created for music files
MaxPhotoUrls == 1      \* object URLs created for photos
MaxRunLen == 2         \* length up to which a run of equal gestures is counted

\* ------------------------------------------------------- program constants
BG_MUSIC_URL == 0      \* '' (no source); uploaded object URLs are 1, 2, ..

SCATTERED == "SCATTERED"
TREE_SHAPE == "TREE_SHAPE"
TreeState == {SCATTERED, TREE_SHAPE}
HandGesture == {"NONE", "OPEN", "CLOSED", "ONE"}

VARIABLES
    \* App (useState)
    treeState, handData, userPhotos, isWebcamOn, isMusicOn, currentMusicSrc,
    \* what the closures of the latest committed render captured
    rendered,
    \* the audio element and its list of pending play() promises
    audio, playPromises,
    \* HandTracker
    onHandUpdateRef, isEnabledDep, musicDep, enableGen,
    handLandmarkerRef, gumPending, liveStreams, nextStream,
    streamRef, video, listeners, dispatch, rafPending, nextRaf, requestRef,
    lastVideoTimeRef,
    \* object URL counters
    nextMusicUrl, nextPhotoUrl,
    \* progress controllers (fixed point, see PScale)
    progressRef, animProgressOrn, animProgressPol, growthRef,
    \* history: the current run of consecutive samples with one gesture
    run,
    \* what detectForVideo returns for the frame under classification
    results,
    \* the blended positions of the latest frame, per group and object
    blended,
    \* Overlay (useState): the gallery modal and its selection
    isGalleryOpen, selectedIndices,
    \* Polaroids: the userPhotos the atlas effect last ran for, the image
    \* batches still loading, the atlasTexture state and the uAtlas uniform
    atlasDep, imageLoads, atlasTexture, uAtlas

appVars == <<treeState, handData, userPhotos, isWebcamOn, isMusicOn, currentMusicSrc>>
audioVars == <<audio, playPromises>>
trackerVars == <<handLandmarkerRef, gumPending, liveStreams, nextStream,
                 streamRef, video, listeners, dispatch, rafPending, nextRaf, requestRef,
                 lastVideoTimeRef>>
effectVars == <<onHandUpdateRef, isEnabledDep, musicDep, enableGen>>
urlVars == <<nextMusicUrl, nextPhotoUrl>>
animVars == <<progressRef, animProgressOrn, animProgressPol, growthRef>>
galleryVars == <<isGalleryOpen, selectedIndices>>
atlasVars == <<atlasDep, imageLoads, atlasTexture, uAtlas>>
vars == <<appVars, rendered, audioVars, effectVars, trackerVars, urlVars, animVars, run,
          results, blended, galleryVars, atlasVars>>

\* ------------------------------------------------------------ hand samples
ResetSample == [gesture |-> "NONE", position |-> [x |-> 0, y |-> 0], isDetected |-> FALSE]

\* A detection result without a hand: results.landmarks is empty.
NoHands == [landmarks |-> <<>>]

\* ------------------------------------------------------------------- App
\* The state the closures of a render capture.
Snapshot == [treeState |-> treeState, isMusicOn |-> isMusicOn,
             currentMusicSrc |-> currentMusicSrc, userPhotos |-> userPhotos,
             isWebcamOn |-> isWebcamOn,
             isGalleryOpen |-> isGalleryOpen, selectedIndices |-> selectedIndices]

\* handleHandUpdate as memoised by useCallback in the latest render.
HandUpdateClosure(r) == [treeState |-> r.treeState, isMusicOn |-> r.isMusicOn,
                         currentMusicSrc |-> r.currentMusicSrc]

\* A toggle that flips the treeState of the latest render instead of the
\* pending state (setTreeState with a value instead of an updater).
FlipRenderedTreeState(prev) ==
    IF rendered.treeState = TREE_SHAPE THEN SCATTERED ELSE TREE_SHAPE

\* setTreeState(prev => prev === TREE_SHAPE ? SCATTERED : TREE_SHAPE)
FlipTreeState(prev) == IF prev = TREE_SHAPE THEN SCATTERED ELSE TREE_SHAPE

\* The branch of handleHandUpdate that calls setTreeState: the closure `cb`
\* compares the gesture with the treeState it captured.
GestureTransition(cb, data) ==
    \/ data.gesture = "OPEN" /\ cb.treeState # SCATTERED
    \/ data.gesture = "CLOSED" /\ cb.treeState # TREE_SHAPE

\* A handler in which every OPEN or CLOSED sample flips the state.
TreeStateAfterHandFlipping(cb, current, data) ==
    IF data.gesture \in {"OPEN", "CLOSED"}
    THEN (IF current = TREE_SHAPE THEN SCATTERED ELSE TREE_SHAPE)
    ELSE current

\* A handler in which the ONE gesture scatters the tree as OPEN does.
TreeStateAfterHandOne(cb, current, data) ==
    IF data.gesture \in {"OPEN", "ONE"} /\ cb.treeState # SCATTERED THEN SCATTERED
    ELSE IF data.gesture = "CLOSED" /\ cb.treeState # TREE_SHAPE THEN TREE_SHAPE
    ELSE current

\* treeState after handleHandUpdate(data) ran in closure cb.
TreeStateAfterHand(cb, current, data) ==
    IF data.gesture = "OPEN" /\ cb.treeState # SCATTERED THEN SCATTERED
    ELSE IF data.gesture = "CLOSED" /\ cb.treeState # TREE_SHAPE THEN TREE_SHAPE
    ELSE current

\* `!isMusicOn && audioRef.current && currentMusicSrc` in closure c.
WantsPlay(c) == ~c.isMusicOn /\ c.currentMusicSrc # BG_MUSIC_URL

\* audio.play(): the promise joins the element's pending play promises; its
\* handlers are then(setIsMusicOn(true)) and the given catch.
Play(catch) == /\ playPromises' = playPromises \cup {catch}
               /\ UNCHANGED audio

\* The audio element is paused: no playback and no play() under way.
AudioPaused == ~audio.playing /\ playPromises = {}

\* setIsMusicOn after the pending play() promises were rejected: toggleMusic's
\* catch calls setIsMusicOn(false), the other catches do nothing.
MusicOnAfterReject(current) == IF "setOff" \in playPromises THEN FALSE ELSE current

\* userPhotos.filter((_, i) => !indicesToRemove.includes(i)), indices from 0.
RECURSIVE FilterPhotos(_, _, _)
FilterPhotos(photos, indicesToRemove, i) ==
    IF photos = <<>> THEN <<>>
    ELSE (IF i \in indicesToRemove THEN <<>> ELSE <<Head(photos)>>)
         \o FilterPhotos(Tail(photos), indicesToRemove, i + 1)

\* The object URLs of k uploaded files, in order.
NewUrls(k) == [i \in 1..k |-> nextPhotoUrl + i]

\* The body of handlePhotosUpload for k files: setUserPhotos(prev => [...prev,
\* ...urls]) with fresh object URLs (App.tsx 136-142).
HandlePhotosUpload(k) ==
    /\ userPhotos' = userPhotos \o NewUrls(k)
    /\ nextPhotoUrl' = nextPhotoUrl + k

\* The body of handleRemovePhotos of the latest render: setUserPhotos of the
\* filtered userPhotos that render captured (App.tsx 144-150).
HandleRemovePhotos(indicesToRemove) ==
    userPhotos' = FilterPhotos(rendered.userPhotos, indicesToRemove, 0)

\* ----------------------------------------------------- history variables
NoRun == [gesture |-> "-", len |-> 0, trans |-> 0, settled |-> FALSE, from |-> SCATTERED]

\* Everything rendered and every effect run: the closures hold the state.
EffectsPending == \/ onHandUpdateRef # HandUpdateClosure(rendered)
                  \/ isEnabledDep # rendered.isWebcamOn
                  \/ musicDep # rendered.currentMusicSrc
Settled == rendered = Snapshot /\ ~EffectsPending

Min(a, b) == IF a < b THEN a ELSE b

\* The run of consecutive OPEN (or CLOSED) samples, after a sample with
\* gesture g that took treeState from `before` to `after`: its length (up to
\* MaxRunLen), the transitions of treeState in it, the treeState it started
\* from and whether every closure then held the current state.  A manual
\* toggle, an effect's reset sample and a NONE or ONE sample end it.
RunAfter(g, before, after, wasSettled) ==
    LET t == IF before # after THEN 1 ELSE 0 IN
    IF g \notin {"OPEN", "CLOSED"} THEN NoRun
    ELSE IF run.gesture = g
    THEN [run EXCEPT !.len = Min(@ + 1, MaxRunLen), !.trans = Min(@ + t, 2)]
    ELSE [gesture |-> g, len |-> 1, trans |-> t, settled |-> wasSettled, from |-> before]

\* The run of consecutive manual toggles, after one more.
RunAfterToggle ==
    IF run.gesture = "toggle"
    THEN [run EXCEPT !.len = Min(@ + 1, MaxRunLen)]
    ELSE [gesture |-> "toggle", len |-> 1, trans |-> 0, settled |-> Settled,
          from |-> treeState]

\* ------------------------------------------------------------ HandTracker
NoVideo == [srcObject |-> 0, loaded |-> FALSE, currentTime |-> 0]

\* navigator.mediaDevices.getUserMedia exists (part_000 68-71): the browsers
\* the scene runs in have it; without it startWebcam returns at once.
HasMediaDevices == TRUE

\* startWebcam() of the render with closure id c, up to its await: a new
\* getUserMedia request unless the API is missing or a stream is active.
GumAfterStart(c) ==
    IF ~HasMediaDevices THEN gumPending
    ELSE IF streamRef # 0 /\ streamRef \in liveStreams THEN gumPending
    ELSE [gumPending EXCEPT ![c] = @ + 1]

\* stopWebcam(): cancel the frame requestRef names, stop and drop the stream
\* of streamRef, detach the video.  Its removeEventListener names the
\* predictWebcam of the calling render, which no startWebcam registered
\* (startWebcam runs only in renders with isEnabled true), so the listeners stay.
\* A stopWebcam that leaves the tracks of its stream running.
LiveAfterStopLeaking == liveStreams

RafAfterStop == IF requestRef # 0 THEN rafPending \ {requestRef} ELSE rafPending
LiveAfterStop == IF streamRef # 0 THEN liveStreams \ {streamRef} ELSE liveStreams
StopWebcam == /\ rafPending' = RafAfterStop
              /\ liveStreams' = LiveAfterStop
              /\ streamRef' = 0
              /\ video' = NoVideo
              /\ UNCHANGED <<handLandmarkerRef, gumPending, nextStream,
                             listeners, dispatch, nextRaf, requestRef, lastVideoTimeRef>>

\* -------------------------------------------------------------------- Init
\* App and HandTracker after the mount effects.
\* One coordinate of an object's two positions (the blend is componentwise).
Coords == {-3, 5}

\* Base rotations (in 1/1000 rad), scales and speeds of the generated objects.
Rotations == {300}
Scales == {1}
Speeds == {2}

\* DualPosition (types.ts): the base data of an object, generated at startup.
DualPositions ==
    [scatter : Coords, tree : Coords, rotation : Rotations, scale : Scales,
     speed : Speeds]

\* Before the first frame no instance matrix and no vertex has been written
\* and no eased progress computed; the clocks read 0.
Unplaced ==
    [ornaments |-> [o \in DualPositions |-> 0],
     polaroids |-> [o \in DualPositions |-> 0],
     foliage   |-> [o \in DualPositions |-> 0],
     ornamentsRot |-> [o \in DualPositions |-> 0],
     polaroidsRot |-> [o \in DualPositions |-> 0],
     ornamentsEase |-> 0,
     polaroidsEase |-> 0,
     foliageEase |-> 0,
     elapsedTime |-> 0,
     uTime |-> 0]

\* useState<THREE.CanvasTexture | null>(null): no texture; a texture is
\* known by the photos drawn on its canvas.
NoAtlas == [built |-> FALSE, photos |-> <<>>]

Constructed ==
    /\ treeState = SCATTERED
    /\ handData = ResetSample
    /\ userPhotos = <<>>
    /\ isWebcamOn = TRUE
    /\ isMusicOn = FALSE
    /\ currentMusicSrc = BG_MUSIC_URL
    /\ rendered = [treeState |-> SCATTERED, isMusicOn |-> FALSE,
                   currentMusicSrc |-> BG_MUSIC_URL, userPhotos |-> <<>>,
                   isWebcamOn |-> TRUE,
                   isGalleryOpen |-> FALSE, selectedIndices |-> {}]
    /\ audio = [src |-> BG_MUSIC_URL, playing |-> FALSE]
    /\ playPromises = {}
    /\ onHandUpdateRef = [treeState |-> SCATTERED, isMusicOn |-> FALSE,
                          currentMusicSrc |-> BG_MUSIC_URL]
    /\ isEnabledDep = TRUE
    /\ musicDep = BG_MUSIC_URL
    /\ enableGen = 0
    /\ handLandmarkerRef = "loading"
    \* the mount effect has called startWebcam() of the first render
    /\ gumPending = [c \in 0..MaxEnables |-> IF c = 0 /\ HasMediaDevices THEN 1 ELSE 0]
    /\ liveStreams = {}
    /\ nextStream = 0
    /\ streamRef = 0
    /\ video = NoVideo
    /\ listeners = {}
    /\ dispatch = {}
    /\ rafPending = {}
    /\ nextRaf = 0
    /\ requestRef = 0
    /\ lastVideoTimeRef = -1
    /\ nextMusicUrl = 0
    /\ nextPhotoUrl = 0
    /\ growthRef = 0
    /\ run = NoRun
    /\ blended = Unplaced
    /\ isGalleryOpen = FALSE
    /\ selectedIndices = {}
    /\ atlasDep = <<>>
    /\ imageLoads = {}
    /\ atlasTexture = NoAtlas
    /\ uAtlas = NoAtlas

\* The progress of Foliage, Ornaments and Polaroids starts at 0 (useRef(0)).
Mounted ==
    /\ Constructed
    /\ progressRef = 0
    /\ animProgressOrn = 0
    /\ animProgressPol = 0

Init == Mounted /\ results = NoHands

\* ------------------------------------------------------------ App handlers
\* handleHandUpdate(data), run in the closure cb (App.tsx 114-134).
HandleHandUpdate(cb, data) ==
    /\ handData' = data
    /\ treeState' = TreeStateAfterHand(cb, treeState, data)
    /\ IF GestureTransition(cb, data) /\ WantsPlay(cb)
       THEN Play("noop")
       ELSE UNCHANGED audioVars
    /\ UNCHANGED <<userPhotos, isWebcamOn, isMusicOn, currentMusicSrc>>

\* handleHandUpdate called through onHandUpdateRef.current, as HandTracker
\* calls it (part_000 173-175), with any sample.
HandUpdate(data) ==
    /\ dispatch = {}
    /\ HandleHandUpdate(onHandUpdateRef, data)
    /\ run' = RunAfter(data.gesture, treeState, treeState', Settled)
    /\ UNCHANGED <<rendered, effectVars, trackerVars, urlVars, animVars, results, blended, galleryVars, atlasVars>>

\* toggleState of the latest render (App.tsx 100-112).
ToggleState ==
    /\ dispatch = {}
    /\ IF WantsPlay(rendered) THEN Play("noop") ELSE UNCHANGED audioVars
    /\ treeState' = FlipTreeState(treeState)
    /\ run' = RunAfterToggle
    /\ UNCHANGED <<handData, userPhotos, isWebcamOn, isMusicOn, currentMusicSrc, rendered,
                   effectVars, trackerVars, urlVars, animVars, results, blended, galleryVars, atlasVars>>

\* onToggleWebcam: setIsWebcamOn(prev => !prev) (App.tsx 163).
ToggleWebcam ==
    /\ dispatch = {}
    /\ ~isWebcamOn => enableGen < MaxEnables
    /\ isWebcamOn' = ~isWebcamOn
    /\ UNCHANGED <<treeState, handData, userPhotos, isMusicOn, currentMusicSrc, rendered,
                   audioVars, effectVars, trackerVars, urlVars, animVars, results, blended, galleryVars, atlasVars, run>>

\* toggleMusic of the latest render (App.tsx 61-80).
ToggleMusic ==
    /\ dispatch = {}
    /\ IF rendered.currentMusicSrc = BG_MUSIC_URL
       THEN UNCHANGED <<isMusicOn, audioVars>>
       ELSE IF rendered.isMusicOn
            THEN \* pause() rejects the pending play() promises
                 /\ audio' = [audio EXCEPT !.playing = FALSE]
                 /\ playPromises' = {}
                 /\ isMusicOn' = FALSE
            ELSE Play("setOff") /\ UNCHANGED isMusicOn
    /\ UNCHANGED <<treeState, handData, userPhotos, isWebcamOn, currentMusicSrc, rendered,
                   effectVars, trackerVars, urlVars, animVars, results, blended, galleryVars, atlasVars, run>>

\* handleMusicUpload(file) (App.tsx 83-97): setting audio.src loads the new
\* source, which stops playback and rejects the pending play() promises.
HandleMusicUpload ==
    /\ dispatch = {}
    /\ nextMusicUrl' = nextMusicUrl + 1
    /\ currentMusicSrc' = nextMusicUrl'
    /\ audio' = [src |-> nextMusicUrl', playing |-> FALSE]
    /\ isMusicOn' = MusicOnAfterReject(isMusicOn)
    /\ playPromises' = {"noop"}
    /\ UNCHANGED <<treeState, handData, userPhotos, isWebcamOn, rendered, effectVars,
                   trackerVars, nextPhotoUrl, animVars, results, blended, galleryVars, atlasVars, run>>

MusicUpload == nextMusicUrl < MaxMusicUploads /\ HandleMusicUpload

\* The pending play() promises are resolved together when playback starts:
\* every then-handler is setIsMusicOn(true).
PlayResolve ==
    /\ dispatch = {}
    /\ playPromises # {}
    /\ playPromises' = {}
    /\ audio' = [audio EXCEPT !.playing = TRUE]
    /\ isMusicOn' = TRUE
    /\ UNCHANGED <<treeState, handData, userPhotos, isWebcamOn, currentMusicSrc, rendered,
                   effectVars, trackerVars, urlVars, animVars, results, blended, galleryVars, atlasVars, run>>

\* ... or rejected together (playback not allowed, source not playable).
PlayReject ==
    /\ dispatch = {}
    /\ playPromises # {}
    /\ ~audio.playing
    /\ playPromises' = {}
    /\ isMusicOn' = MusicOnAfterReject(isMusicOn)
    /\ UNCHANGED <<treeState, handData, userPhotos, isWebcamOn, currentMusicSrc, rendered,
                   audio, effectVars, trackerVars, urlVars, animVars, results, blended, galleryVars, atlasVars, run>>

\* handlePhotosUpload(files) with k files (App.tsx 136-142).
PhotosUpload(k) ==
    /\ dispatch = {}
    /\ nextPhotoUrl + k <= MaxPhotoUrls
    /\ HandlePhotosUpload(k)
    /\ UNCHANGED <<treeState, handData, isWebcamOn, isMusicOn, currentMusicSrc, rendered,
                   audioVars, effectVars, trackerVars, nextMusicUrl, animVars, results, blended, galleryVars, atlasVars, run>>

\* handleRemovePhotos(indicesToRemove) of the latest render (App.tsx 144-150).
RemovePhotos(indicesToRemove) ==
    /\ dispatch = {}
    /\ HandleRemovePhotos(indicesToRemove)
    /\ UNCHANGED <<treeState, handData, isWebcamOn, isMusicOn, currentMusicSrc, rendered,
                   audioVars, effectVars, trackerVars, urlVars, animVars, results, blended, galleryVars, atlasVars, run>>

\* React commits a re-render: the handlers now close over the current state.
Render ==
    /\ dispatch = {}
    /\ rendered # Snapshot
    /\ ~EffectsPending
    /\ rendered' = Snapshot
    /\ UNCHANGED <<appVars, audioVars, effectVars, trackerVars, urlVars, animVars, results, blended, galleryVars, atlasVars, run>>

\* The effects of the committed render, children first: HandTracker stores
\* the new onHandUpdate (part_000 20-22), its isEnabled effect starts or stops
\* the camera (part_000 55-65), then App's audio effect (App.tsx 26-58).
IsEnabledEffect ==
    IF rendered.isWebcamOn = isEnabledDep
    THEN UNCHANGED <<trackerVars, enableGen, handData, treeState, run>>
    ELSE IF rendered.isWebcamOn
         THEN /\ enableGen' = enableGen + 1
              /\ gumPending' = GumAfterStart(enableGen')
              /\ UNCHANGED <<handLandmarkerRef, liveStreams, nextStream,
                             streamRef, video, listeners, dispatch, rafPending, nextRaf,
                             requestRef, lastVideoTimeRef>>
              /\ UNCHANGED <<handData, treeState, run>>
         ELSE /\ StopWebcam
              \* onHandUpdateRef.current(reset sample): gesture NONE, so the
              \* closure reaches neither setTreeState nor play()
              /\ handData' = ResetSample
              /\ treeState' = TreeStateAfterHand(onHandUpdateRef', treeState, ResetSample)
              /\ run' = NoRun
              /\ UNCHANGED enableGen

AudioEffect ==
    IF /\ rendered.currentMusicSrc # musicDep
       /\ rendered.currentMusicSrc # BG_MUSIC_URL
       /\ audio.src # rendered.currentMusicSrc
    THEN /\ audio' = [src |-> rendered.currentMusicSrc, playing |-> FALSE]
         /\ isMusicOn' = MusicOnAfterReject(isMusicOn)
         /\ playPromises' = IF AudioPaused THEN {} ELSE {"noop"}
    ELSE UNCHANGED <<audioVars, isMusicOn>>

RunEffects ==
    /\ dispatch = {}
    /\ EffectsPending
    /\ onHandUpdateRef' = HandUpdateClosure(rendered)
    /\ isEnabledDep' = rendered.isWebcamOn
    /\ musicDep' = rendered.currentMusicSrc
    /\ IsEnabledEffect
    /\ AudioEffect
    /\ UNCHANGED <<userPhotos, isWebcamOn, currentMusicSrc, rendered, urlVars, animVars, results, blended, galleryVars, atlasVars>>


\* ------------------------------------------------- HandTracker: detection
BoolCount(b) == IF b THEN 1 ELSE 0

\* A classifier that takes the thumb into the ONE rule: a stretched thumb
\* beside the index finger is not ONE.
ClassifyThumbInOne(thumbOpen, indexOpen, middleOpen, ringOpen, pinkyOpen) ==
    LET totalOpenCount == BoolCount(indexOpen) + BoolCount(middleOpen)
                          + BoolCount(ringOpen) + BoolCount(pinkyOpen)
                          + BoolCount(thumbOpen)
    IN  IF indexOpen /\ ~middleOpen /\ ~ringOpen /\ ~pinkyOpen /\ ~thumbOpen THEN "ONE"
        ELSE IF totalOpenCount >= 4 THEN "OPEN"
        ELSE IF totalOpenCount <= 1 /\ ~indexOpen THEN "CLOSED"
        ELSE "NONE"

\* A classifier whose OPEN rule counts the four main fingers only.
ClassifyMainFour(thumbOpen, indexOpen, middleOpen, ringOpen, pinkyOpen) ==
    LET mainFingersOpenCount == BoolCount(indexOpen) + BoolCount(middleOpen)
                                + BoolCount(ringOpen) + BoolCount(pinkyOpen)
        totalOpenCount == mainFingersOpenCount + BoolCount(thumbOpen)
    IN  IF indexOpen /\ ~middleOpen /\ ~ringOpen /\ ~pinkyOpen THEN "ONE"
        ELSE IF mainFingersOpenCount >= 4 THEN "OPEN"
        ELSE IF totalOpenCount <= 1 /\ ~indexOpen THEN "CLOSED"
        ELSE "NONE"

\* A classifier that tests the CLOSED rule with < instead of <=.
ClassifyClosedBelow(thumbOpen, indexOpen, middleOpen, ringOpen, pinkyOpen) ==
    LET mainFingersOpenCount == BoolCount(indexOpen) + BoolCount(middleOpen)
                                + BoolCount(ringOpen) + BoolCount(pinkyOpen)
        totalOpenCount == mainFingersOpenCount + BoolCount(thumbOpen)
    IN  IF indexOpen /\ ~middleOpen /\ ~ringOpen /\ ~pinkyOpen THEN "ONE"
        ELSE IF totalOpenCount >= 4 THEN "OPEN"
        ELSE IF totalOpenCount < 1 /\ ~indexOpen THEN "CLOSED"
        ELSE "NONE"

\* A classifier that tests the OPEN rule with > instead of >=.
ClassifyOpenAbove(thumbOpen, indexOpen, middleOpen, ringOpen, pinkyOpen) ==
    LET mainFingersOpenCount == BoolCount(indexOpen) + BoolCount(middleOpen)
                                + BoolCount(ringOpen) + BoolCount(pinkyOpen)
        totalOpenCount == mainFingersOpenCount + BoolCount(thumbOpen)
    IN  IF indexOpen /\ ~middleOpen /\ ~ringOpen /\ ~pinkyOpen THEN "ONE"
        ELSE IF totalOpenCount > 4 THEN "OPEN"
        ELSE IF totalOpenCount <= 1 /\ ~indexOpen THEN "CLOSED"
        ELSE "NONE"

\* The gesture of part_000 158-169 from the five isExtended results.
Classify(thumbOpen, indexOpen, middleOpen, ringOpen, pinkyOpen) ==
    LET mainFingersOpenCount == BoolCount(indexOpen) + BoolCount(middleOpen)
                                + BoolCount(ringOpen) + BoolCount(pinkyOpen)
        totalOpenCount == mainFingersOpenCount + BoolCount(thumbOpen)
    IN  IF indexOpen /\ ~middleOpen /\ ~ringOpen /\ ~pinkyOpen THEN "ONE"
        ELSE IF totalOpenCount >= 4 THEN "OPEN"
        ELSE IF totalOpenCount <= 1 /\ ~indexOpen THEN "CLOSED"
        ELSE "NONE"

\* A palm position that does not mirror x.
PalmPositionUnmirrored(wx, wy) == [x |-> 2 * wx - WGrid, y |-> 2 * wy - WGrid]

\* Palm position of part_000 125-130 for the wrist (wx, wy) / WGrid, in units
\* of 1 / WGrid: ((1 - x) - 0.5) * 2 and (y - 0.5) * 2.
PalmPosition(wx, wy) == [x |-> 2 * (WGrid - wx) - WGrid, y |-> 2 * wy - WGrid]

\* Landmark coordinates are points k / WGrid of the unit square.
GridPoints == (0..WGrid) \X (0..WGrid)

\* A finger is its tip and the joint isExtended compares it with, <<tip, base>>:
\* tip in the far corner and base at the origin, the reverse, and tip at the
\* origin with the base in a third corner.
FingerPoses == {<<(<<WGrid, WGrid>>), (<<0, 0>>)>>,
                <<(<<0, 0>>), (<<WGrid, WGrid>>)>>,
                <<(<<0, 0>>), (<<0, WGrid>>)>>}

\* Lengths of the landmark list of a detected hand: 21 from MediaPipe, and
\* shorter lists.
LandmarkLens == {0, 20, 21}

\* What detectForVideo can return as a hand: the length of its landmark
\* list, landmark 0 and, per finger, the two landmarks the code reads.
Hands == [len : LandmarkLens, wrist : GridPoints, thumb : FingerPoses,
          index : FingerPoses, middle : FingerPoses, ring : FingerPoses,
          pinky : FingerPoses]
Results == {NoHands} \cup {[landmarks |-> <<h>>] : h \in Hands}

\* landmarks[i] for the indices predictWebcam reads (part_000 121-145).
ReadIndices == {0, 2, 4, 6, 8, 10, 12, 14, 16, 18, 20}
Landmark(hand, i) ==
    CASE i = 0 -> hand.wrist
      [] i = 4 -> hand.thumb[1]   [] i = 2 -> hand.thumb[2]
      [] i = 8 -> hand.index[1]   [] i = 6 -> hand.index[2]
      [] i = 12 -> hand.middle[1] [] i = 10 -> hand.middle[2]
      [] i = 16 -> hand.ring[1]   [] i = 14 -> hand.ring[2]
      [] i = 20 -> hand.pinky[1]  [] i = 18 -> hand.pinky[2]

\* Math.hypot(p.x - q.x, p.y - q.y) squared; hypot is compared with >, and
\* the square root keeps the order.
Dist2(p, q) == (p[1] - q[1]) * (p[1] - q[1]) + (p[2] - q[2]) * (p[2] - q[2])

\* isExtended(tipIdx, baseIdx) of part_000 141-145.
IsExtended(hand, tipIdx, baseIdx) ==
    Dist2(Landmark(hand, tipIdx), hand.wrist) > Dist2(Landmark(hand, baseIdx), hand.wrist)

\* `results.landmarks && results.landmarks.length > 0` (part_000 118).
HasHand(res) == Len(res.landmarks) > 0

\* Reading .x of a landmark the list does not have throws a TypeError; all
\* of ReadIndices are read before the callback (part_000 121-151).
Throws(res) ==
    HasHand(res) /\ \E i \in ReadIndices : i >= res.landmarks[1].len

\* The sample predictWebcam builds for a hand (part_000 119-169).
SampleOf(hand) ==
    LET thumbOpen == IsExtended(hand, 4, 2)
        indexOpen == IsExtended(hand, 8, 6)
        middleOpen == IsExtended(hand, 12, 10)
        ringOpen == IsExtended(hand, 16, 14)
        pinkyOpen == IsExtended(hand, 20, 18)
    IN  [gesture |-> Classify(thumbOpen, indexOpen, middleOpen, ringOpen, pinkyOpen),
         position |-> PalmPosition(hand.wrist[1], hand.wrist[2]),
         isDetected |-> TRUE]

\* A sample whose isDetected says that the detector answered, not that it
\* found a hand.
SampleOfResultsAnswered(res) ==
    IF HasHand(res) THEN SampleOf(res.landmarks[1])
    ELSE [gesture |-> "NONE", position |-> [x |-> 0, y |-> 0], isDetected |-> TRUE]

\* { gesture, position, isDetected } of part_000 114-170 for a result that
\* does not throw.
SampleOfResults(res) ==
    IF HasHand(res) THEN SampleOf(res.landmarks[1])
    ELSE [gesture |-> "NONE", position |-> [x |-> 0, y |-> 0], isDetected |-> FALSE]

\* The samples predictWebcam can deliver.
Samples == {SampleOfResults(res) : res \in {r \in Results : ~Throws(r)}}

\* The results the inference loop is run with: no hand, hands with the wrist
\* at the origin whose fingers are stretched or curled in pairs (middle with
\* ring, thumb with pinky), and one hand with a short landmark list.
Stretched == <<(<<WGrid, WGrid>>), (<<0, 0>>)>>
Curled == <<(<<0, 0>>), (<<WGrid, WGrid>>)>>
TrackerHands ==
    {[len |-> 21, wrist |-> <<0, 0>>, thumb |-> b, index |-> i, middle |-> a,
      ring |-> a, pinky |-> b] : a \in {Stretched, Curled}, b \in {Stretched, Curled},
                                 i \in {Stretched, Curled}}
    \cup {[len |-> 20, wrist |-> <<0, 0>>, thumb |-> Curled, index |-> Curled,
           middle |-> Curled, ring |-> Curled, pinky |-> Curled]}
TrackerResults == {NoHands} \cup {[landmarks |-> <<h>>] : h \in TrackerHands}

\* Lines 112-175 of predictWebcam for the detection result res: the sample
\* goes to onHandUpdateRef.current unless building it throws.
ProcessResults(res) ==
    IF Throws(res) THEN UNCHANGED <<appVars, audioVars>>
    ELSE LET data == SampleOfResults(res)
         IN  HandleHandUpdate(onHandUpdateRef, data)

\* isEnabled as captured by the predictWebcam of closure c: closure 0 is the
\* mount render (isWebcamOn starts true), closure c > 0 the c-th render whose
\* isEnabled effect called startWebcam, which it does only when isEnabled.
IsEnabledIn(c) == TRUE

\* ---------------------------------------------------- HandTracker: steps
\* initHandLandmarker resolves (part_000 25-41): the detector is stored and
\* the mount render's closure calls startWebcam() if its isEnabled holds.
InitResolve ==
    /\ dispatch = {}
    /\ handLandmarkerRef = "loading"
    /\ handLandmarkerRef' = "ready"
    /\ gumPending' = IF IsEnabledIn(0) THEN GumAfterStart(0) ELSE gumPending
    /\ UNCHANGED <<appVars, rendered, audioVars, effectVars, liveStreams,
                   nextStream, streamRef, video, listeners, dispatch, rafPending, nextRaf,
                   requestRef, lastVideoTimeRef, urlVars, animVars, results, blended, galleryVars, atlasVars, run>>

\* initHandLandmarker throws and catches (part_000 42-44).
InitReject ==
    /\ dispatch = {}
    /\ handLandmarkerRef = "loading"
    /\ handLandmarkerRef' = "failed"
    /\ UNCHANGED <<appVars, rendered, audioVars, effectVars, gumPending,
                   liveStreams, nextStream, streamRef, video, listeners, dispatch,
                   rafPending, nextRaf, requestRef, lastVideoTimeRef, urlVars, animVars, results, blended, galleryVars, atlasVars, run>>

\* getUserMedia of closure c resolves (part_000 77-85).
GumResolve(c) ==
    /\ dispatch = {}
    /\ gumPending[c] > 0
    /\ gumPending' = [gumPending EXCEPT ![c] = @ - 1]
    /\ nextStream' = nextStream + 1
    /\ liveStreams' = liveStreams \cup {nextStream'}
    /\ streamRef' = nextStream'
    /\ video' = [srcObject |-> nextStream', loaded |-> FALSE, currentTime |-> 0]
    /\ listeners' = listeners \cup {c}
    /\ UNCHANGED <<appVars, rendered, audioVars, effectVars,
                   handLandmarkerRef, dispatch, rafPending, nextRaf, requestRef,
                   lastVideoTimeRef, urlVars, animVars, results, blended, galleryVars, atlasVars, run>>

\* getUserMedia of closure c rejects (part_000 86-88).
GumReject(c) ==
    /\ dispatch = {}
    /\ gumPending[c] > 0
    /\ gumPending' = [gumPending EXCEPT ![c] = @ - 1]
    /\ UNCHANGED <<appVars, rendered, audioVars, effectVars,
                   handLandmarkerRef, liveStreams, nextStream, streamRef, video, listeners,
                   dispatch, rafPending, nextRaf, requestRef, lastVideoTimeRef, urlVars,
                   animVars, results, blended, galleryVars, atlasVars, run>>

\* The video element has the first frame of its stream: "loadeddata" is
\* dispatched to every registered predictWebcam.
LoadedData ==
    /\ dispatch = {}
    /\ video.srcObject \in liveStreams
    /\ ~video.loaded
    /\ video' = [video EXCEPT !.loaded = TRUE]
    /\ dispatch' = listeners
    /\ UNCHANGED <<appVars, rendered, audioVars, effectVars,
                   handLandmarkerRef, gumPending, liveStreams, nextStream, streamRef,
                   listeners, rafPending, nextRaf, requestRef, lastVideoTimeRef, urlVars,
                   animVars, results, blended, galleryVars, atlasVars, run>>

\* The camera delivers the next video frame.
VideoFrame ==
    /\ dispatch = {}
    /\ video.loaded
    /\ video.srcObject \in liveStreams
    /\ video.currentTime < MaxVideoTime
    /\ video' = [video EXCEPT !.currentTime = @ + 1]
    /\ UNCHANGED <<appVars, rendered, audioVars, effectVars,
                   handLandmarkerRef, gumPending, liveStreams, nextStream, streamRef,
                   listeners, dispatch, rafPending, nextRaf, requestRef, lastVideoTimeRef,
                   urlVars, animVars, results, blended, galleryVars, atlasVars, run>>

\* A guard that does not look at the detector.
GuardReturnsUnchecked(c) == ~IsEnabledIn(c)

\* `!handLandmarkerRef.current || !videoRef.current || !isEnabled` of the
\* predictWebcam of closure c (part_000 104); the video element is mounted.
GuardReturns(c) == handLandmarkerRef # "ready" \/ ~IsEnabledIn(c)

\* A frame test that does not compare the timestamps.
FrameAdvancedAlways == video.loaded

\* `videoWidth > 0 && currentTime !== lastVideoTimeRef.current` (part_000 109).
FrameAdvanced == video.loaded /\ video.currentTime # lastVideoTimeRef

\* requestRef.current = requestAnimationFrame(predictWebcam) (part_000 178),
\* in the run that animation frame `fired` started (0: a listener call).
ScheduleFrame(fired) ==
    /\ nextRaf < MaxRaf
    /\ nextRaf' = nextRaf + 1
    /\ requestRef' = nextRaf'
    /\ rafPending' = (rafPending \ {fired}) \cup {nextRaf'}

\* predictWebcam of closure c (part_000 103-179), called as a loadeddata
\* listener or as animation frame `fired` (0 for a listener call), with res
\* what detectForVideo returns if the frame is processed.  An exception
\* leaves the function before line 178.
PredictWebcamOn(c, fired, res) ==
    IF GuardReturns(c)
    THEN /\ rafPending' = rafPending \ {fired}
         /\ UNCHANGED <<appVars, audioVars, nextRaf, requestRef, lastVideoTimeRef, run>>
    ELSE IF FrameAdvanced
    THEN /\ lastVideoTimeRef' = video.currentTime
         /\ ProcessResults(res)
         /\ run' = NoRun
         /\ IF Throws(res)
            THEN /\ rafPending' = rafPending \ {fired}
                 /\ UNCHANGED <<nextRaf, requestRef>>
            ELSE ScheduleFrame(fired)
    ELSE /\ UNCHANGED <<appVars, audioVars, lastVideoTimeRef, run>>
         /\ ScheduleFrame(fired)

\* The results detectForVideo can give a run of the predictWebcam of closure
\* c: it is called only for an advanced frame.
ResultsFor(c) == IF ~GuardReturns(c) /\ FrameAdvanced THEN TrackerResults ELSE {NoHands}

\* One listener of the loadeddata event under dispatch runs.
ListenerCallOn(c, res) ==
    /\ c \in dispatch
    /\ dispatch' = dispatch \ {c}
    /\ PredictWebcamOn(c, 0, res)
    /\ UNCHANGED <<rendered, effectVars, handLandmarkerRef, gumPending,
                   liveStreams, nextStream, streamRef, video, listeners, urlVars,
                   animVars, results, blended, galleryVars, atlasVars>>
ListenerCall(c) == \E res \in ResultsFor(c) : ListenerCallOn(c, res)

\* The animation frame `id` fires: the predictWebcam that requested it runs.
RafFireOn(id, res) ==
    /\ dispatch = {}
    /\ id \in rafPending
    /\ PredictWebcamOn(0, id, res)
    /\ UNCHANGED <<rendered, effectVars, handLandmarkerRef, gumPending,
                   liveStreams, nextStream, streamRef, video, listeners, dispatch, urlVars,
                   animVars, results, blended, galleryVars, atlasVars>>
RafFire(id) == \E res \in ResultsFor(0) : RafFireOn(id, res)

\* predictWebcam's processing of one advanced frame whose detection result
\* is `results`, outside the loop.
DetectFrame ==
    /\ dispatch = {}
    /\ ProcessResults(results)
    /\ run' = NoRun
    /\ UNCHANGED <<rendered, effectVars, trackerVars, urlVars, animVars, results, blended, galleryVars, atlasVars>>


\* ------------------------------------------------- progress controllers
\* Fixed point: a progress value p stands for p / PScale and a frame's delta
\* is in milliseconds, so that 0.001 and delta * 1.5 are whole numbers.
PScale == 2 * 1000
MsPerSecond == 10 * 100
Eps == PScale \div MsPerSecond          \* 0.001
Abs(x) == IF x < 0 THEN -x ELSE x

\* x * num / den, rounded toward zero.
MulDiv(x, num, den) == IF x < 0 THEN -((-x * num) \div den) ELSE (x * num) \div den

\* target = treeState === TREE_SHAPE ? 1 : 0, with the treeState prop of the
\* latest render.
Target == IF rendered.treeState = TREE_SHAPE THEN PScale ELSE 0

\* A foliage controller without the clamp.
FoliageStepUnclamped(p, target, d) ==
    IF Abs(p - target) > Eps
    THEN p + MulDiv((IF target > p THEN 1 ELSE -1) * d * 15, PScale, 10 * MsPerSecond)
    ELSE p

\* A foliage controller that stops a hundred epsilons from the target.
FoliageStepCoarse(p, target, d) ==
    IF Abs(p - target) > 100 * Eps
    THEN LET direction == IF target > p THEN 1 ELSE -1
             q == p + MulDiv(direction * d * 15, PScale, 10 * MsPerSecond)
         IN  IF direction = 1 /\ q > PScale THEN PScale
             ELSE IF direction = -1 /\ q < 0 THEN 0
             ELSE q
    ELSE p

\* A foliage controller that replays the transition when the target is 0:
\* it restarts from 1.
FoliageStepReplay(p, target, d) ==
    IF Abs(p - target) > Eps
    THEN LET direction == IF target > p THEN 1 ELSE -1
             start == IF direction = -1 THEN PScale ELSE p
             q == start + MulDiv(direction * d * 15, PScale, 10 * MsPerSecond)
         IN  IF direction = 1 /\ q > PScale THEN PScale
             ELSE IF direction = -1 /\ q < 0 THEN 0
             ELSE q
    ELSE p

\* Foliage useFrame (Foliage.tsx 153-164): speed 1.5, linear, clamped in the
\* direction of travel.
FoliageStep(p, target, d) ==
    IF Abs(p - target) > Eps
    THEN LET direction == IF target > p THEN 1 ELSE -1
             q == p + MulDiv(direction * d * 15, PScale, 10 * MsPerSecond)
         IN  IF direction = 1 /\ q > PScale THEN PScale
             ELSE IF direction = -1 /\ q < 0 THEN 0
             ELSE q
    ELSE p

\* Ornaments useFrame (part_000 294-300): animProgress += diff * delta * 1.0.
OrnamentsStep(p, target, d) ==
    LET diff == target - p
    IN  IF Abs(diff) > Eps THEN p + MulDiv(diff * d * 10, 1, 10 * MsPerSecond) ELSE p

\* A Polaroids controller that moves at the fixed rate of 1 per second and
\* is clamped to [0, 1].
PolaroidsStepLinear(p, target, d) ==
    LET q == p + (IF target > p THEN 1 ELSE -1) * MulDiv(d, PScale, MsPerSecond)
    IN  IF Abs(target - p) > Eps
        THEN (IF q > PScale THEN PScale ELSE IF q < 0 THEN 0 ELSE q)
        ELSE p

\* Polaroids useFrame (Overlay.tsx 508-510): animProgress += diff * delta.
PolaroidsStep(p, target, d) ==
    LET diff == target - p
    IN  IF Abs(diff) > Eps THEN p + MulDiv(diff * d, 1, MsPerSecond) ELSE p

\* Ribbon useFrame (Overlay.tsx 787-794): speed 0.9 growing, 2.5 shrinking,
\* clamped to [0, 1].
RibbonStep(p, target, d) ==
    LET speed10 == IF target > p THEN 9 ELSE 25
        diff == target - p
        q == p + MulDiv(diff * d * speed10, 1, 10 * MsPerSecond)
    IN  IF Abs(diff) > Eps
        THEN (IF q > PScale THEN PScale ELSE IF q < 0 THEN 0 ELSE q)
        ELSE p

\* An easing that ends at nine tenths.
EaseTShort(t) == MulDiv(t * 9, 1, 10)

\* easeT of Ornaments and Polaroids (part_000 303, Overlay.tsx 513):
\* t < 0.5 ? 2 * t * t : -1 + (4 - 2 * t) * t.
EaseT(t) ==
    IF 2 * t < PScale
    THEN MulDiv(2 * t * t, 1, PScale)
    ELSE MulDiv((4 * PScale - 2 * t) * t, 1, PScale) - PScale

\* A cubic easing replaced by the quadratic one.
EaseInOutQuad(x) ==
    IF 2 * x < PScale
    THEN MulDiv(2 * x * x, 1, PScale)
    ELSE MulDiv((4 * PScale - 2 * x) * x, 1, PScale) - PScale

\* easeInOutCubic of the foliage vertex shader (Foliage.tsx 28-30):
\* x < 0.5 ? 4 x^3 : 1 - (-2 x + 2)^3 / 2.
EaseInOutCubic(x) ==
    IF 2 * x < PScale
    THEN MulDiv(MulDiv(4 * x * x, 1, PScale) * x, 1, PScale)
    ELSE LET u == 2 * PScale - 2 * x
         IN  PScale - MulDiv(MulDiv(MulDiv(u * u, 1, PScale) * u, 1, PScale), 1, 2)

\* THREE.MathUtils.lerp(x, y, t) = (1 - t) * x + t * y, t in fixed point.
Lerp(x, y, t) == MulDiv(x * (PScale - t), 1, PScale) + MulDiv(y * t, 1, PScale)

\* GLSL mix(x, y, a) = x * (1 - a) + y * a.
Mix(x, y, a) == MulDiv(x * (PScale - a), 1, PScale) + MulDiv(y * a, 1, PScale)

\* The position of an object in its data array (the arrays are taken in
\* the order of scatter, tree, rotation).
Rank(S, x) == Cardinality({y \in S : y < x})
IndexOf(o) ==
    (Rank(Coords, o.scatter) * Cardinality(Coords) + Rank(Coords, o.tree))
        * Cardinality(Rotations) + Rank(Rotations, o.rotation)

\* Math.sin of an angle in 1/1000 rad, in thousandths, taken piecewise linear
\* between its zeros and extrema.
TwoPi == 6283
Sin(x) ==
    LET r == x % TwoPi
    IN  IF 4 * r < TwoPi THEN (r * 4000) \div TwoPi
        ELSE IF 4 * r < 3 * TwoPi THEN ((TwoPi \div 2 - r) * 4000) \div TwoPi
        ELSE -(((TwoPi - r) * 4000) \div TwoPi)

\* An Ornaments rotation that turns on from where the last frame left it.
OrnamentRotationDrift(o, t, time) ==
    blended.ornamentsRot[o] + MulDiv(time * o.speed * 2 * (PScale - t), 1, 10 * PScale)

\* Ornaments updateMesh (part_000 317-321), first component:
\* rotation[0] + time * speed * 0.2 * (1 - t); time in ms, angles in 1/1000 rad.
OrnamentRotation(o, t, time) ==
    o.rotation + MulDiv(time * o.speed * 2 * (PScale - t), 1, 10 * PScale)

\* Polaroids useFrame (Overlay.tsx 531-541), second component: past t = 0.8 the
\* base rotation plus a sway of sin(time * speed + i) * 0.1, before it a
\* tumble of time * speed * (1 - t) * 2 + i * 2.
PolaroidRotation(o, t, time) ==
    LET i == IndexOf(o)
    IN  IF 10 * t > 8 * PScale
        THEN o.rotation + Sin(time * o.speed + i * MsPerSecond) \div 10
        ELSE MulDiv(time * o.speed * 2 * (PScale - t), 1, PScale) + i * 2 * MsPerSecond

\* The clock readings tried (state.clock.elapsedTime, in ms).
Times == {0, 700}

\* The frame deltas tried, in ms: none, a 60 Hz frame, a slow frame, and a
\* frame after the tab was in the background.
Deltas == {0, 16, 250, 2 * MsPerSecond}

\* One frame of Foliage (Foliage.tsx 149-168).
FoliageFrame(d) ==
    /\ dispatch = {}
    /\ progressRef' = FoliageStep(progressRef, Target, d)
    \* the vertex shader runs with uProgress = progressRef.current
    /\ \E time \in Times :
          blended' = [blended EXCEPT
                         !.uTime = time,
                         !.foliageEase = EaseInOutCubic(progressRef'),
                         !.foliage = [o \in DualPositions |->
                             Mix(o.scatter, o.tree, EaseInOutCubic(progressRef'))]]
    /\ UNCHANGED <<appVars, rendered, audioVars, effectVars, trackerVars, urlVars,
                   animProgressOrn, animProgressPol, growthRef, run, results,
                   galleryVars, atlasVars>>

\* The deltas tried for the blend, in ms: a slow frame and a frame of one second.
BlendDeltas == {3 * 250, MsPerSecond}

\* The deltas tried for the instanced groups, and the |progress| up to which
\* their frames are explored (the unclamped controllers can pass any bound).
GroupDeltas == {0, 500, 2 * MsPerSecond}
PCap == 2 * PScale

\* One frame of the render loop for Ornaments, Polaroids and Ribbon: each
\* useFrame callback gets the same delta.
GroupsFrame(d) ==
    /\ dispatch = {}
    /\ Abs(animProgressOrn) <= PCap /\ Abs(animProgressPol) <= PCap
    /\ animProgressOrn' = OrnamentsStep(animProgressOrn, Target, d)
    /\ animProgressPol' = PolaroidsStep(animProgressPol, Target, d)
    /\ growthRef' = RibbonStep(growthRef, Target, d)
    /\ \E time \in Times :
          blended' = [blended EXCEPT
                         !.elapsedTime = time,
                         !.ornamentsEase = EaseT(animProgressOrn'),
                         !.polaroidsEase = EaseT(animProgressPol'),
                         !.ornaments = [o \in DualPositions |->
                             Lerp(o.scatter, o.tree, EaseT(animProgressOrn'))],
                         !.ornamentsRot = [o \in DualPositions |->
                             OrnamentRotation(o, animProgressOrn', time)],
                         !.polaroids = [o \in DualPositions |->
                             Lerp(o.scatter, o.tree, EaseT(animProgressPol'))],
                         !.polaroidsRot = [o \in DualPositions |->
                             PolaroidRotation(o, animProgressPol', time)]]
    \* Polaroids hands a built atlasTexture to the material (Overlay.tsx 515-521)
    /\ uAtlas' = IF atlasTexture.built THEN atlasTexture ELSE uAtlas
    /\ UNCHANGED <<appVars, rendered, audioVars, effectVars, trackerVars, urlVars,
                   progressRef, run, results, galleryVars, atlasDep, imageLoads,
                   atlasTexture>>

\* ------------------------------------------------------ Overlay: gallery
\* The files one change event of the photo input brings, and the object
\* URLs created in all.
MaxFiles == 2
MaxGalleryUrls == 3

\* The "Memories" button (Overlay.tsx 176-178); the modal covers it.
OpenGallery ==
    /\ dispatch = {}
    /\ ~rendered.isGalleryOpen
    /\ isGalleryOpen' = TRUE
    /\ UNCHANGED <<appVars, rendered, audioVars, effectVars, trackerVars, urlVars,
                   animVars, run, results, blended, selectedIndices, atlasVars>>

\* The modal's close button (Overlay.tsx 200-202).
CloseGallery ==
    /\ dispatch = {}
    /\ rendered.isGalleryOpen
    /\ isGalleryOpen' = FALSE
    /\ UNCHANGED <<appVars, rendered, audioVars, effectVars, trackerVars, urlVars,
                   animVars, run, results, blended, selectedIndices, atlasVars>>

\* A selection that keeps the indices a deletion acted on.
SelectionAfterDeleteKept == rendered.selectedIndices

\* setSelectedIndices(new Set()) of handleDeleteSelected (Overlay.tsx 69).
SelectionAfterDelete == {}

\* toggleSelection(index) of the latest render, from the photo button at
\* index of the rendered list (Overlay.tsx 56-64, 218-224).
ToggleSelection(index) ==
    /\ dispatch = {}
    /\ rendered.isGalleryOpen
    /\ index < Len(rendered.userPhotos)
    /\ selectedIndices' = IF index \in rendered.selectedIndices
                          THEN rendered.selectedIndices \ {index}
                          ELSE rendered.selectedIndices \cup {index}
    /\ UNCHANGED <<appVars, rendered, audioVars, effectVars, trackerVars, urlVars,
                   animVars, run, results, blended, isGalleryOpen, atlasVars>>

\* handleDeleteSelected of the latest render (Overlay.tsx 66-71); its button
\* shows while the rendered selection is not empty (Overlay.tsx 253-260).
DeleteSelected ==
    /\ dispatch = {}
    /\ rendered.isGalleryOpen
    /\ rendered.selectedIndices # {}
    /\ HandleRemovePhotos(rendered.selectedIndices)
    /\ selectedIndices' = SelectionAfterDelete
    /\ UNCHANGED <<treeState, handData, isWebcamOn, isMusicOn, currentMusicSrc, rendered,
                   audioVars, effectVars, trackerVars, urlVars, animVars, run, results,
                   blended, isGalleryOpen, atlasVars>>

\* handlePhotoChange with k files (Overlay.tsx 37-45): onPhotosUpload(files).
PhotoChange(k) ==
    /\ dispatch = {}
    /\ rendered.isGalleryOpen
    /\ nextPhotoUrl + k <= MaxGalleryUrls
    /\ HandlePhotosUpload(k)
    /\ UNCHANGED <<treeState, handData, isWebcamOn, isMusicOn, currentMusicSrc, rendered,
                   audioVars, effectVars, trackerVars, nextMusicUrl, animVars, run,
                   results, blended, galleryVars, atlasVars>>

GalleryNext ==
    \/ OpenGallery
    \/ CloseGallery
    \/ \E index \in 0..(MaxGalleryUrls - 1) : ToggleSelection(index)
    \/ DeleteSelected
    \/ \E k \in 1..MaxFiles : PhotoChange(k)

\* ------------------------------------------------------ Polaroids: atlas
\* gridSize * gridSize cells (Overlay.tsx 447, 459).
GridCells == 4 * 4

\* userPhotos.slice(0, gridSize * gridSize).
AtlasSlice(photos) == SubSeq(photos, 1, Min(Len(photos), GridCells))

\* Polaroids re-renders with the userPhotos prop of App's latest render and
\* runs its atlas effect (Overlay.tsx 439-481): nothing for an empty list,
\* else a new canvas whose images start loading.
PolaroidsCommit ==
    /\ dispatch = {}
    /\ rendered.userPhotos # atlasDep
    /\ atlasDep' = rendered.userPhotos
    /\ imageLoads' = IF Len(rendered.userPhotos) = 0 THEN imageLoads
                     ELSE imageLoads \cup {[photos |-> AtlasSlice(rendered.userPhotos),
                                             loadedCount |-> 0]}
    /\ UNCHANGED <<appVars, rendered, audioVars, effectVars, trackerVars, urlVars,
                   animVars, run, results, blended, galleryVars, atlasTexture, uAtlas>>

\* img.onload of one image of batch b (Overlay.tsx 464-477): the last one
\* of the batch makes the canvas the atlasTexture.
ImageLoad(b) ==
    /\ dispatch = {}
    /\ b \in imageLoads
    /\ IF b.loadedCount + 1 = Len(b.photos)
       THEN /\ imageLoads' = imageLoads \ {b}
            /\ atlasTexture' = [built |-> TRUE, photos |-> b.photos]
       ELSE /\ imageLoads' = (imageLoads \ {b})
                                \cup {[b EXCEPT !.loadedCount = @ + 1]}
            /\ UNCHANGED atlasTexture
    /\ UNCHANGED <<appVars, rendered, audioVars, effectVars, trackerVars, urlVars,
                   animVars, run, results, blended, galleryVars, atlasDep, uAtlas>>

\* ------------------------------------------------------------ specifications
ClosureIds == 0..MaxEnables
RafIds == 1..MaxRaf

AppNext ==
    \/ ToggleState
    \/ ToggleWebcam
    \/ ToggleMusic
    \/ MusicUpload
    \/ PlayResolve
    \/ PlayReject
    \/ \E k \in 1..MaxPhotoUrls : PhotosUpload(k)
    \/ \E idx \in SUBSET (0..(MaxPhotoUrls - 1)) : idx # {} /\ RemovePhotos(idx)
    \/ Render
    \/ RunEffects

TrackerNext ==
    \/ InitResolve
    \/ InitReject
    \/ \E c \in ClosureIds : GumResolve(c)
    \/ \E c \in ClosureIds : GumReject(c)
    \/ LoadedData
    \/ VideoFrame
    \/ \E c \in ClosureIds : ListenerCall(c)
    \/ \E id \in RafIds : RafFire(id)

\* The scene state machine as driven by its callers: the manual toggle, any
\* hand sample at any time, the camera switch, and React's commits.
SceneSamples == {d \in Samples : ~d.isDetected \/ d.position = PalmPosition(0, 0)}
Next ==
    \/ ToggleState
    \/ ToggleWebcam
    \/ \E data \in SceneSamples : HandUpdate(data)
    \/ Render
    \/ RunEffects
Spec == Init /\ [][Next]_vars

\* All of App's handlers.
NextApp == AppNext \/ \E data \in SceneSamples : HandUpdate(data)
SpecApp == Init /\ [][NextApp]_vars

\* Foliage's progress controller under the manual toggle.
NextFoliage == ToggleState \/ Render \/ RunEffects \/ \E d \in Deltas : FoliageFrame(d)
SpecFoliage == Init /\ [][NextFoliage]_vars

\* ... with frames of positive delta arriving for ever.
SpecFoliageLive == SpecFoliage /\ WF_vars(\E d \in Deltas \ {0} : FoliageFrame(d))

\* The progress controllers of the instanced groups under the manual toggle.
NextGroups == ToggleState \/ Render \/ RunEffects \/ \E d \in GroupDeltas : GroupsFrame(d)
SpecGroups == Init /\ [][NextGroups]_vars

\* The classification of one frame, for every detection result.
\* All animated groups under the manual toggle.
NextBlend ==
    \/ ToggleState \/ Render \/ RunEffects
    \/ \E d \in BlendDeltas : FoliageFrame(d)
    \/ \E d \in BlendDeltas : GroupsFrame(d)
SpecBlend == Init /\ [][NextBlend]_vars

\* The gallery handlers called at any time, also before the re-render.
NextPhotos == GalleryNext \/ Render
SpecPhotos == Init /\ [][NextPhotos]_vars

\* The gallery as the user drives it: every click and change event is
\* handled by the handlers of the committed render.
NextGallery == (Settled /\ GalleryNext) \/ Render
SpecGallery == Init /\ [][NextGallery]_vars

\* The gallery with the Polaroids atlas and the render loop.
NextAtlas ==
    \/ NextGallery
    \/ PolaroidsCommit
    \/ \E b \in imageLoads : ImageLoad(b)
    \/ \E d \in BlendDeltas : GroupsFrame(d)
SpecAtlas == Init /\ [][NextAtlas]_vars

\* The easings over a grid of progress values: the scene starts at any
\* progress of the grid and frames of no or little time are drawn.
EaseInputs == {(k * PScale) \div 8 : k \in 0..8}
EaseDeltas == {0, 250}
InitEase ==
    /\ Constructed
    /\ results = NoHands
    /\ progressRef \in EaseInputs
    /\ animProgressOrn \in EaseInputs
    /\ animProgressPol = animProgressOrn
NextEase ==
    \/ \E d \in EaseDeltas : FoliageFrame(d)
    \/ \E d \in EaseDeltas : GroupsFrame(d)
SpecEase == InitEase /\ [][NextEase]_vars

InitDetect == Mounted /\ results \in Results
NextDetect == DetectFrame
SpecDetect == InitDetect /\ [][NextDetect]_vars

\* The music of App: the music button, uploads of up to MaxMusicFiles tracks
\* (a track can replace one that plays), the outcomes of play(), and the
\* scene toggle and hand samples that start playback on a transition.
MaxMusicFiles == 2
MusicChange == nextMusicUrl < MaxMusicFiles /\ HandleMusicUpload
NextMusic ==
    \/ ToggleMusic
    \/ MusicChange
    \/ PlayResolve
    \/ PlayReject
    \/ ToggleState
    \/ \E data \in SceneSamples : HandUpdate(data)
    \/ Render
    \/ RunEffects
SpecMusic == Init /\ [][NextMusic]_vars

\* App with HandTracker: samples come from the inference loop.
NextTracker == ToggleState \/ ToggleWebcam \/ Render \/ RunEffects \/ TrackerNext
SpecTracker == Init /\ [][NextTracker]_vars

\* HandTracker with the camera left enabled, the detector loading and every
\* getUserMedia request granted.  A promise that can settle does settle, a
\* stream with a first frame fires loadeddata, a dispatched listener and a
\* requested animation frame run, React commits and runs its effects: weak
\* fairness on each of these steps.  The manual toggle may or may not come.
NextTrackerLive ==
    \/ ToggleState
    \/ Render
    \/ RunEffects
    \/ InitResolve
    \/ \E c \in ClosureIds : GumResolve(c)
    \/ LoadedData
    \/ VideoFrame
    \/ \E c \in ClosureIds : ListenerCall(c)
    \/ \E id \in RafIds : RafFire(id)
SpecTrackerLive ==
    /\ Init
    /\ [][NextTrackerLive]_vars
    /\ WF_vars(Render)
    /\ WF_vars(RunEffects)
    /\ WF_vars(InitResolve)
    /\ WF_vars(\E c \in ClosureIds : GumResolve(c))
    /\ WF_vars(LoadedData)
    /\ WF_vars(VideoFrame)
    /\ WF_vars(\E c \in ClosureIds : ListenerCall(c))
    /\ WF_vars(\E id \in RafIds : RafFire(id))


\* =================================================================== claims

\* ---- C1: whenever handleHandUpdate processes a sample with gesture OPEN the
\* scene state afterwards is SCATTERED, and with gesture CLOSED it is
\* TREE_SHAPE, whatever closure handles the sample.  (Violated: a closure
\* created before the latest state change compares the gesture with the
\* treeState it captured and skips setTreeState.)
C1_GestureRule ==
    [][\A data \in SceneSamples :
          HandUpdate(data) =>
             /\ data.gesture = "OPEN" => treeState' = SCATTERED
             /\ data.gesture = "CLOSED" => treeState' = TREE_SHAPE]_vars

\* ---- C2: a run of N >= 1 consecutive CLOSED samples that starts with the
\* state SCATTERED held by every closure (as in the initial state) makes
\* exactly one transition and ends in TREE_SHAPE; symmetrically for OPEN from
\* TREE_SHAPE; a run whose gesture matches the state it starts from makes no
\* transition.
C2_Idempotence ==
    /\ (run.gesture = "CLOSED" /\ run.settled /\ run.from = SCATTERED)
          => (run.trans = 1 /\ treeState = TREE_SHAPE)
    /\ (run.gesture = "OPEN" /\ run.settled /\ run.from = TREE_SHAPE)
          => (run.trans = 1 /\ treeState = SCATTERED)
    /\ (run.gesture = "CLOSED" /\ run.from = TREE_SHAPE)
          => (run.trans = 0 /\ treeState = TREE_SHAPE)
    /\ (run.gesture = "OPEN" /\ run.from = SCATTERED)
          => (run.trans = 0 /\ treeState = SCATTERED)

\* A run of MaxRunLen CLOSED samples from the settled state SCATTERED, the
\* later ones handled by the closure that still holds SCATTERED.
C2_Witness ==
    /\ run.gesture = "CLOSED" /\ run.settled /\ run.from = SCATTERED
    /\ run.len = MaxRunLen
    /\ onHandUpdateRef.treeState = SCATTERED
    /\ treeState = TREE_SHAPE

\* ---- C3: every toggleState call flips the scene state, whatever the hand
\* sample, the camera switch and the music state are, also when the render
\* that toggleState closes over is older than the state.
C3_ToggleFlips ==
    [][ToggleState =>
          /\ treeState = SCATTERED => treeState' = TREE_SHAPE
          /\ treeState = TREE_SHAPE => treeState' = SCATTERED]_vars

\* Two toggles in a row brought the state back while the latest render still
\* shows the state between them, with the camera off, music on and a
\* detected hand.
C3_Witness ==
    /\ run.gesture = "toggle" /\ run.len >= 2
    /\ treeState = run.from
    /\ rendered.treeState # treeState
    /\ ~isWebcamOn
    /\ isMusicOn
    /\ handData.isDetected

\* ---- C4: the scene state is changed only by an OPEN or CLOSED sample or by
\* the manual toggle: a ONE or NONE sample, the reset sample of the disable
\* effect, a photo upload or removal, a music toggle or upload, a play()
\* promise settling, a webcam toggle and a re-render leave it unchanged.
C4_SceneStateFrame ==
    [][/\ treeState' # treeState =>
             \/ ToggleState
             \/ \E data \in SceneSamples :
                   data.gesture \in {"OPEN", "CLOSED"} /\ HandUpdate(data)
       /\ (\/ \E data \in SceneSamples :
                 data.gesture \in {"ONE", "NONE"} /\ HandUpdate(data)
           \/ RunEffects
           \/ \E k \in 1..MaxPhotoUrls : PhotosUpload(k)
           \/ \E idx \in SUBSET (0..(MaxPhotoUrls - 1)) : RemovePhotos(idx)
           \/ ToggleMusic
           \/ MusicUpload
           \/ ToggleWebcam) => treeState' = treeState]_vars

\* A ONE sample is the latest one, after the disable effect's reset sample, a
\* photo upload and removal and a music upload, with the scene state assembled.
C4_Witness ==
    /\ handData.gesture = "ONE"
    /\ ~isEnabledDep
    /\ nextPhotoUrl > 0 /\ Len(userPhotos) < nextPhotoUrl
    /\ nextMusicUrl > 0
    /\ treeState = TREE_SHAPE

\* ---- C5: once the isEnabled effect has stopped the camera, and until the
\* camera is switched on again, a step of predictWebcam (from the loadeddata
\* listener or from an animation frame) leaves App with the reset sample and
\* with the scene state it had.  (Violated: a getUserMedia request or a detector load that was
\* pending at the time resolves into a startWebcam and a predictWebcam of a
\* render with isEnabled true.)
C5_NoSampleWhileDisabled ==
    [][(~isEnabledDep /\ ~isWebcamOn /\ ~rendered.isWebcamOn
          /\ ((\E c \in ClosureIds : ListenerCall(c)) \/ (\E id \in RafIds : RafFire(id))))
        => /\ handData' = ResetSample
           /\ treeState' = treeState]_vars

C7_FoliageRange == 0 <= progressRef /\ progressRef <= PScale

\* The progress is exactly 1 with the target at 1: no sum of the steps of
\* Deltas is, so a frame overshot and was clamped.
C7_Witness == progressRef = PScale /\ Target = PScale

\* ---- C8: after any frames with any delta >= 0 (also one frame of more than
\* a second) and any flips of the target, the animProgress of Ornaments, the
\* animProgress of Polaroids and Ribbon's growth are each within [0, 1].
\* (Violated: Ornaments and Polaroids add diff * delta without a clamp, so a
\* frame of 2 s takes animProgress from 0 to 2.)
C8_GroupsRange ==
    /\ 0 <= animProgressOrn /\ animProgressOrn <= PScale
    /\ 0 <= animProgressPol /\ animProgressPol <= PScale
    /\ 0 <= growthRef /\ growthRef <= PScale

\* ---- C9: with frames of positive delta arriving for ever, once the target
\* stays 1 the foliage progress eventually stays within 0.001 of 1, and once
\* it stays 0, within 0.001 of 0; and a step that finds the progress within
\* 0.001 of the target and keeps the target leaves the progress unchanged.
C9_Completion ==
    /\ <>[](Target = PScale) => <>[](Abs(progressRef - PScale) <= Eps)
    /\ <>[](Target = 0) => <>[](Abs(progressRef) <= Eps)
    /\ [][(Abs(progressRef - Target) <= Eps /\ Target' = Target)
             => progressRef' = progressRef]_vars

\* The progress stopped 0.001 short of the target 1.
C9_Witness == Target = PScale /\ progressRef = PScale - Eps

\* ---- C10: a frame of Foliage changes the progress by at most delta * 1.5,
\* never away from the target, and strictly toward it when delta > 0 and the
\* progress is more than 0.001 from the target; nothing but a frame changes
\* the progress, so a flip of the target neither resets nor replays it.
C10_NoJump ==
    [][/\ \A d \in Deltas :
             FoliageFrame(d) =>
                /\ Abs(progressRef' - progressRef) * 10 * MsPerSecond <= d * 15 * PScale
                /\ Target = PScale => progressRef' >= progressRef
                /\ Target = 0 => progressRef' <= progressRef
                /\ (d > 0 /\ Abs(progressRef - Target) > Eps)
                      => Abs(progressRef' - Target) < Abs(progressRef - Target)
       /\ progressRef' # progressRef => \E d \in Deltas : FoliageFrame(d)]_vars

\* The target is 0 and the progress is one slow frame up from 0 and one
\* 60 Hz frame down again: the target flipped mid-flight.
C10_Witness ==
    /\ Target = 0
    /\ progressRef = FoliageStep(FoliageStep(0, PScale, 250), 0, 16)
    /\ progressRef < FoliageStep(0, PScale, 250)

\* ---- C11: for every detected hand (21 landmarks) whose index tip (8) is
\* farther from the wrist than landmark 6 while the middle, ring and pinky
\* tips (12, 16, 20) are not farther than landmarks 10, 14, 18, the sample the
\* frame delivers has gesture ONE, with the thumb stretched or not.
C11_One ==
    [][(DetectFrame /\ HasHand(results) /\ ~Throws(results)) =>
          LET h == results.landmarks[1]
              far(t, b) == Dist2(Landmark(h, t), h.wrist) > Dist2(Landmark(h, b), h.wrist)
          IN  (far(8, 6) /\ ~far(12, 10) /\ ~far(16, 14) /\ ~far(20, 18))
                 => handData'.gesture = "ONE"]_vars

\* A delivered ONE sample of a hand whose thumb is stretched too.
C11_Witness ==
    /\ HasHand(results) /\ ~Throws(results)
    /\ handData.isDetected /\ handData.gesture = "ONE"
    /\ Dist2(results.landmarks[1].thumb[1], results.landmarks[1].wrist)
          > Dist2(results.landmarks[1].thumb[2], results.landmarks[1].wrist)

\* ---- C12: for every detected hand (21 landmarks) with at least 4 of the
\* 5 fingers stretched (tip farther from the wrist than the finger's joint),
\* the sample the frame delivers has gesture OPEN.
C12_Open ==
    [][(DetectFrame /\ HasHand(results) /\ ~Throws(results)) =>
          LET h == results.landmarks[1]
              far(t, b) == Dist2(Landmark(h, t), h.wrist) > Dist2(Landmark(h, b), h.wrist)
              n == Cardinality({f \in {<<4, 2>>, <<8, 6>>, <<12, 10>>, <<16, 14>>, <<20, 18>>} :
                                   far(f[1], f[2])})
          IN  n >= 4 => handData'.gesture = "OPEN"]_vars

\* A delivered OPEN sample of a hand with exactly four stretched fingers, the
\* thumb among them.
C12_Witness ==
    /\ HasHand(results) /\ ~Throws(results)
    /\ handData.isDetected /\ handData.gesture = "OPEN"
    /\ LET h == results.landmarks[1]
       IN  /\ Dist2(h.thumb[1], h.wrist) > Dist2(h.thumb[2], h.wrist)
           /\ Dist2(h.pinky[1], h.wrist) <= Dist2(h.pinky[2], h.wrist)

\* ---- C13 as stated: for every detected hand with at most 1 of the four
\* non-thumb fingers stretched and the index finger not stretched, the
\* delivered sample has gesture CLOSED, whatever the thumb.  (Violated: the
\* code counts the thumb, so thumb and middle finger stretched give NONE.)
C13_ClosedNonThumb ==
    [][(DetectFrame /\ HasHand(results) /\ ~Throws(results)) =>
          LET h == results.landmarks[1]
              far(t, b) == Dist2(Landmark(h, t), h.wrist) > Dist2(Landmark(h, b), h.wrist)
              n == Cardinality({f \in {<<8, 6>>, <<12, 10>>, <<16, 14>>, <<20, 18>>} :
                                   far(f[1], f[2])})
          IN  (n <= 1 /\ ~far(8, 6)) => handData'.gesture = "CLOSED"]_vars

\* ---- C13 amended: for every detected hand with at most 1 of the five
\* fingers (thumb included) stretched and the index finger not stretched, the
\* delivered sample has gesture CLOSED.
C13_ClosedOfFive ==
    [][(DetectFrame /\ HasHand(results) /\ ~Throws(results)) =>
          LET h == results.landmarks[1]
              far(t, b) == Dist2(Landmark(h, t), h.wrist) > Dist2(Landmark(h, b), h.wrist)
              n == Cardinality({f \in {<<4, 2>>, <<8, 6>>, <<12, 10>>, <<16, 14>>, <<20, 18>>} :
                                   far(f[1], f[2])})
          IN  (n <= 1 /\ ~far(8, 6)) => handData'.gesture = "CLOSED"]_vars

\* A delivered CLOSED sample of a hand whose only stretched finger is the
\* thumb.
C13_Witness ==
    /\ HasHand(results) /\ ~Throws(results)
    /\ handData.isDetected /\ handData.gesture = "CLOSED"
    /\ LET h == results.landmarks[1]
       IN  Dist2(h.thumb[1], h.wrist) > Dist2(h.thumb[2], h.wrist)

C15_WellFormedSample ==
    [][/\ \A id \in RafIds :
             (RafFireOn(id, NoHands) /\ ~GuardReturns(0) /\ FrameAdvanced)
                => handData' = [gesture |-> "NONE", position |-> [x |-> 0, y |-> 0],
                                isDetected |-> FALSE]
       /\ \A c \in ClosureIds :
             (ListenerCallOn(c, NoHands) /\ ~GuardReturns(c) /\ FrameAdvanced)
                => handData' = [gesture |-> "NONE", position |-> [x |-> 0, y |-> 0],
                                isDetected |-> FALSE]
       /\ ~handData'.isDetected =>
             (handData'.gesture = "NONE" /\ handData'.position = [x |-> 0, y |-> 0])
       /\ handData'.gesture \in {"OPEN", "CLOSED", "ONE"} => handData'.isDetected]_vars

\* The camera was never switched off, two frames were processed and the loop
\* is alive, so both delivered a sample, and the latest one is the sample of
\* a frame without a hand.
C15_Witness ==
    /\ enableGen = 0 /\ isEnabledDep
    /\ lastVideoTimeRef = MaxVideoTime
    /\ rafPending # {}
    /\ handData = [gesture |-> "NONE", position |-> [x |-> 0, y |-> 0],
                   isDetected |-> FALSE]

\* ---- C16: for every detected hand with wrist (wx, wy) the delivered
\* sample has position ((1 - wx - 0.5) * 2, (wy - 0.5) * 2), whatever its
\* gesture; both components are in [-1, 1], x falls as wx grows, and the
\* wrist (0.5, 0.5) gives (0, 0).  (Coordinates in units of 1 / WGrid.)
C16_PalmPosition ==
    [][/\ (DetectFrame /\ HasHand(results) /\ ~Throws(results)) =>
             LET wx == results.landmarks[1].wrist[1]
                 wy == results.landmarks[1].wrist[2]
                 pos == handData'.position
             IN  /\ pos.x = WGrid - 2 * wx
                 /\ pos.y = 2 * wy - WGrid
                 /\ -WGrid <= pos.x /\ pos.x <= WGrid
                 /\ -WGrid <= pos.y /\ pos.y <= WGrid
                 /\ (2 * wx = WGrid /\ 2 * wy = WGrid) => pos = [x |-> 0, y |-> 0]
       /\ \A a, b, y \in 0..WGrid :
             a < b => PalmPosition(a, y).x > PalmPosition(b, y).x]_vars

\* A delivered sample without a gesture whose wrist at the right edge of the
\* image is mirrored to x = -1.
C16_Witness ==
    /\ HasHand(results) /\ ~Throws(results)
    /\ results.landmarks[1].wrist[1] = WGrid
    /\ handData.isDetected /\ handData.gesture = "NONE"
    /\ handData.position.x = -WGrid

\* ---- C17: a frame whose detection result is a hand with fewer than 21
\* landmarks is treated as a frame without a hand: App's sample stays or
\* becomes the reset sample, predictWebcam still schedules its next animation
\* frame, and the scene state and every progress are unchanged.  (Violated:
\* reading a missing landmark throws, predictWebcam is left before
\* requestAnimationFrame and the loop ends.)
C17_MalformedLandmarks ==
    [][\A res \in TrackerResults :
          (/\ HasHand(res) /\ res.landmarks[1].len < 21
           /\ FrameAdvanced
           /\ \/ \E id \in RafIds : ~GuardReturns(0) /\ RafFireOn(id, res)
              \/ \E c \in ClosureIds : ~GuardReturns(c) /\ ListenerCallOn(c, res))
          => /\ handData' \in {handData, ResetSample}
             /\ nextRaf' = nextRaf + 1 /\ nextRaf' \in rafPending'
             /\ treeState' = treeState
             /\ animVars' = animVars]_vars

\* ---- C18: a run of predictWebcam that passes the guard while the video's
\* currentTime equals lastVideoTimeRef, or while the video has no frame yet,
\* runs no detection and calls no callback: App's state and lastVideoTimeRef
\* are unchanged and the next animation frame is scheduled.  A frame is
\* processed only at a timestamp other than the last processed one, which
\* then becomes the last processed one, so a second run at that timestamp is
\* such a skipping run; a new detected sample reaches App only in a step that
\* processes a frame.
C18_StaleFrame ==
    [][/\ (/\ ~FrameAdvanced
           /\ \/ \E id \in RafIds : ~GuardReturns(0) /\ RafFireOn(id, NoHands)
              \/ \E c \in ClosureIds : ~GuardReturns(c) /\ ListenerCallOn(c, NoHands))
          => /\ appVars' = appVars
             /\ lastVideoTimeRef' = lastVideoTimeRef
             /\ nextRaf' = nextRaf + 1 /\ nextRaf' \in rafPending'
             /\ requestRef' = nextRaf'
       /\ lastVideoTimeRef' # lastVideoTimeRef
          => /\ FrameAdvanced
             /\ lastVideoTimeRef' = video.currentTime
             /\ ~FrameAdvanced'
       /\ (handData'.isDetected /\ handData' # handData)
          => lastVideoTimeRef' # lastVideoTimeRef]_vars

\* One stream, its frame 0 processed with a detected hand, and a second
\* animation frame scheduled while the video is still at timestamp 0: a run
\* skipped the frame and kept the sample.
C18_Witness ==
    /\ nextStream = 1 /\ video.loaded /\ video.currentTime = 0
    /\ lastVideoTimeRef = 0
    /\ nextRaf >= 2 /\ requestRef \in rafPending
    /\ handData.isDetected

\* ---- C19: while the detector has failed to initialise, or no camera
\* stream was granted, App holds no sample with isDetected = true; a failing
\* initialisation or getUserMedia changes neither the scene state nor the
\* sample; and the manual toggle still flips the scene state then.
C19_DetectorUnavailable ==
    [][/\ (handLandmarkerRef' = "failed" \/ nextStream' = 0) => ~handData'.isDetected
       /\ (InitReject \/ \E c \in ClosureIds : GumReject(c))
             => (treeState' = treeState /\ handData' = handData)
       /\ (ToggleState /\ (handLandmarkerRef = "failed" \/ nextStream = 0))
             => treeState' # treeState]_vars

\* The detector failed, the camera runs (a frame is loaded) and no frame was
\* processed; the scene was assembled by the manual toggle.
C19_Witness ==
    /\ handLandmarkerRef = "failed"
    /\ video.loaded /\ streamRef \in liveStreams
    /\ lastVideoTimeRef = -1
    /\ ~handData.isDetected
    /\ treeState = TREE_SHAPE

\* ---- C20: after a frame of an animated group, every object's blended
\* position (before secondary motion) is its scatter position when the group's
\* progress is exactly 0 and its tree position when the progress is exactly
\* 1, for Ornaments, Polaroids and the foliage particles; both easings map 0
\* to 0 and 1 to 1.
C20_BlendEndpoints ==
    [][/\ EaseT(0) = 0 /\ EaseT(PScale) = PScale
       /\ EaseInOutCubic(0) = 0 /\ EaseInOutCubic(PScale) = PScale
       /\ (\E d \in BlendDeltas : FoliageFrame(d)) =>
             \A o \in DualPositions :
                /\ progressRef' = 0 => blended'.foliage[o] = o.scatter
                /\ progressRef' = PScale => blended'.foliage[o] = o.tree
       /\ (\E d \in BlendDeltas : GroupsFrame(d)) =>
             \A o \in DualPositions :
                /\ animProgressOrn' = 0 => blended'.ornaments[o] = o.scatter
                /\ animProgressOrn' = PScale => blended'.ornaments[o] = o.tree
                /\ animProgressPol' = 0 => blended'.polaroids[o] = o.scatter
                /\ animProgressPol' = PScale => blended'.polaroids[o] = o.tree]_vars

\* All three groups have reached progress 1 and every object stands at its
\* tree position.
C20_Witness ==
    /\ progressRef = PScale /\ animProgressOrn = PScale /\ animProgressPol = PScale
    /\ \A o \in DualPositions :
          /\ blended.foliage[o] = o.tree
          /\ blended.ornaments[o] = o.tree
          /\ blended.polaroids[o] = o.tree

\* ---- C21: the base data of the objects is never written, and the pose a
\* group shows is the one computed from the base data, the group's current
\* progress and the clock reading of its latest frame alone: whatever frames
\* came before, the same progress and the same elapsed time give the same
\* positions and rotations (before the first frame nothing is placed).
C21_FreshBlend ==
    /\ \/ /\ blended.ornaments = Unplaced.ornaments
          /\ blended.ornamentsRot = Unplaced.ornamentsRot
          /\ blended.polaroids = Unplaced.polaroids
          /\ blended.polaroidsRot = Unplaced.polaroidsRot
          /\ animProgressOrn = 0 /\ animProgressPol = 0
       \/ \A o \in DualPositions :
             /\ blended.ornaments[o] = Lerp(o.scatter, o.tree, EaseT(animProgressOrn))
             /\ blended.ornamentsRot[o]
                   = OrnamentRotation(o, animProgressOrn, blended.elapsedTime)
             /\ blended.polaroids[o] = Lerp(o.scatter, o.tree, EaseT(animProgressPol))
             /\ blended.polaroidsRot[o]
                   = PolaroidRotation(o, animProgressPol, blended.elapsedTime)
    /\ \/ blended.foliage = Unplaced.foliage /\ progressRef = 0
       \/ \A o \in DualPositions :
             blended.foliage[o] = Mix(o.scatter, o.tree, EaseInOutCubic(progressRef))
    /\ DOMAIN blended.ornaments = DualPositions

\* Ornaments and Polaroids are mid-transition on the way back to the
\* scattered state while the foliage still forms the tree, and show the pose
\* of the current progress at a clock reading other than 0.
C21_Witness ==
    /\ treeState = SCATTERED /\ rendered.treeState = SCATTERED
    /\ animProgressOrn > 0 /\ animProgressOrn < PScale
    /\ progressRef = PScale
    /\ blended.elapsedTime # 0
    /\ \E o \in DualPositions :
          /\ o.scatter # o.tree
          /\ blended.foliage[o] = o.tree
          /\ blended.ornamentsRot[o] # o.rotation
          /\ blended.ornaments[o] # o.scatter /\ blended.ornaments[o] # o.tree

\* ---- C22: a hand sample that changes the scene state requests playback
\* exactly when isMusicOn is false and a music source is loaded; a sample that
\* does not change the scene state requests no playback.  (Violated: the
\* closure in onHandUpdateRef decides with the treeState, isMusicOn and
\* currentMusicSrc it captured, so a sample it takes for a transition calls
\* play() although the scene state stays as it is.)
C22_AudioOnTransition ==
    [][\A data \in SceneSamples :
          HandUpdate(data) =>
             LET wanted == /\ treeState' # treeState
                           /\ ~isMusicOn
                           /\ currentMusicSrc # BG_MUSIC_URL
             IN  /\ (wanted /\ playPromises = {}) => playPromises' # {}
                 /\ ~wanted => playPromises' = playPromises]_vars

\* ---- C23: an upload appends the new references at the end of the list
\* as it is, in order; a removal takes exactly the entries at the given
\* indices out of the list as it is and keeps the order of the others, also
\* when an upload was issued since the last re-render.  (Violated:
\* handleRemovePhotos filters the userPhotos its render captured, so photos
\* uploaded since are dropped with the removal.)
C23_PhotoList ==
    [][/\ \A k \in 1..MaxFiles :
             PhotoChange(k) => (/\ Len(userPhotos') = Len(userPhotos) + k
                                /\ SubSeq(userPhotos', 1, Len(userPhotos)) = userPhotos)
       /\ DeleteSelected =>
             userPhotos' = FilterPhotos(userPhotos, rendered.selectedIndices, 0)]_vars

\* ---- C29: once no image of the atlas effect is loading any more and the
\* effect has run for the current photo list, the atlasTexture is the one
\* built from the (first GridCells entries of the) current list, and with an
\* empty list no built atlas is in use.  (Violated: the effect returns for an
\* empty list without clearing the texture, and a batch started for an
\* earlier list can finish last.)
C29_AtlasFollowsPhotos ==
    (imageLoads = {} /\ atlasDep = userPhotos) =>
        IF Len(userPhotos) = 0
        THEN ~atlasTexture.built /\ ~uAtlas.built
        ELSE atlasTexture = [built |-> TRUE, photos |-> AtlasSlice(userPhotos)]

\* ---- C30: every index in selectedIndices is an index of the current photo
\* list; Delete Selected removes exactly the photos shown as selected and
\* leaves the selection empty.
C30_SelectionValid ==
    [][/\ \A i \in selectedIndices' : i < Len(userPhotos')
       /\ DeleteSelected =>
             /\ userPhotos' = FilterPhotos(userPhotos, selectedIndices, 0)
             /\ Len(userPhotos') = Len(userPhotos) - Cardinality(selectedIndices)
             /\ selectedIndices' = {}]_vars

\* Two of three photos were selected and deleted: one photo is left, the
\* last uploaded, and nothing is selected.
C30_Witness ==
    /\ isGalleryOpen /\ Settled
    /\ nextPhotoUrl = 3
    /\ userPhotos = <<3>>
    /\ selectedIndices = {}

C25_CubicEverywhere ==
    [][/\ (\E d \in EaseDeltas : FoliageFrame(d)) =>
             /\ progressRef' = 0 => blended'.foliageEase = 0
             /\ 4 * progressRef' = PScale => 16 * blended'.foliageEase = PScale
             /\ 2 * progressRef' = PScale => 2 * blended'.foliageEase = PScale
             /\ progressRef' = PScale => blended'.foliageEase = PScale
       /\ (\E d \in EaseDeltas : GroupsFrame(d)) =>
             /\ animProgressOrn' = 0 => blended'.ornamentsEase = 0
             /\ 4 * animProgressOrn' = PScale => 16 * blended'.ornamentsEase = PScale
             /\ 2 * animProgressOrn' = PScale => 2 * blended'.ornamentsEase = PScale
             /\ animProgressOrn' = PScale => blended'.ornamentsEase = PScale
             /\ animProgressPol' = 0 => blended'.polaroidsEase = 0
             /\ 4 * animProgressPol' = PScale => 16 * blended'.polaroidsEase = PScale
             /\ 2 * animProgressPol' = PScale => 2 * blended'.polaroidsEase = PScale
             /\ animProgressPol' = PScale => blended'.polaroidsEase = PScale]_vars

\* ---- C25 (amended): the foliage shader eases cubically (0 at 0, 1/16 at
\* 1/4, 1/2 at 1/2, 1 at 1); Ornaments and Polaroids ease quadratically
\* (t < 0.5 ? 2t^2 : -1 + (4 - 2t)t: 0 at 0, 1/8 at 1/4, 1/2 at 1/2, 1 at 1);
\* both easings are non-decreasing on [0, 1] (compared at every hundredth).
C25_Easings ==
    [][/\ (\E d \in EaseDeltas : FoliageFrame(d)) =>
             /\ progressRef' = 0 => blended'.foliageEase = 0
             /\ 4 * progressRef' = PScale => 16 * blended'.foliageEase = PScale
             /\ 2 * progressRef' = PScale => 2 * blended'.foliageEase = PScale
             /\ progressRef' = PScale => blended'.foliageEase = PScale
             /\ blended'.foliageEase = EaseInOutCubic(progressRef')
       /\ (\E d \in EaseDeltas : GroupsFrame(d)) =>
             /\ animProgressOrn' = 0 => blended'.ornamentsEase = 0
             /\ 4 * animProgressOrn' = PScale => 8 * blended'.ornamentsEase = PScale
             /\ 2 * animProgressOrn' = PScale => 2 * blended'.ornamentsEase = PScale
             /\ animProgressOrn' = PScale => blended'.ornamentsEase = PScale
             /\ blended'.ornamentsEase = EaseT(animProgressOrn')
             /\ animProgressPol' = 0 => blended'.polaroidsEase = 0
             /\ 4 * animProgressPol' = PScale => 8 * blended'.polaroidsEase = PScale
             /\ 2 * animProgressPol' = PScale => 2 * blended'.polaroidsEase = PScale
             /\ animProgressPol' = PScale => blended'.polaroidsEase = PScale
             /\ blended'.polaroidsEase = EaseT(animProgressPol')
       /\ \A k \in 0..99 :
             LET t == (k * PScale) \div 100
                 u == ((k + 1) * PScale) \div 100
             IN  /\ EaseInOutCubic(t) <= EaseInOutCubic(u)
                 /\ EaseT(t) <= EaseT(u)]_vars

\* Frames have eased a quarter of the way for all three groups: the foliage
\* shows 1/16, Ornaments and Polaroids 1/8.
C25_Witness ==
    /\ 4 * progressRef = PScale /\ 16 * blended.foliageEase = PScale
    /\ 4 * animProgressOrn = PScale /\ 8 * blended.ornamentsEase = PScale
    /\ 4 * animProgressPol = PScale /\ 8 * blended.polaroidsEase = PScale

\* ---- C26: with the camera left enabled, the detector loaded and the
\* stream granted, predictWebcam eventually passes its guard and processes a
\* video frame (detectForVideo is called and the sample delivered), whichever
\* of loadeddata and the detector's load comes first.  (Violated: a
\* loadeddata that comes first returns at the guard and nothing calls
\* predictWebcam again.)
C26_LoopStarts == <>(lastVideoTimeRef # -1)

\* ---- C27: at most one acquired camera stream is live, every live stream
\* is the one streamRef holds, and once the camera is disabled, the commit
\* and its effects are done and no getUserMedia or detector promise is
\* pending, no stream is live.  (Violated: a startWebcam called while a
\* request is pending issues a second request, and a request that resolves
\* after the disable acquires a stream nothing stops.)
C27_StreamOwnership ==
    /\ Cardinality(liveStreams) <= 1
    /\ liveStreams \subseteq {streamRef}
    /\ (/\ ~isWebcamOn
        /\ Settled
        /\ \A c \in ClosureIds : gumPending[c] = 0
        /\ handLandmarkerRef # "loading") => liveStreams = {}

\* ---- C28: whenever no play() promise is pending, isMusicOn is true
\* exactly when the audio element is playing.  (Violated: the play() of a
\* music upload is caught by an empty handler, so its rejection leaves
\* isMusicOn true with the audio stopped.)
C28_MusicFlag == playPromises = {} => (isMusicOn <=> audio.playing)


====
